---- MODULE Spec2Model ----
(***************************************************************************)
(* The search -> filter -> summarize pipeline of                           *)
(* src/app/agents/news_agent.py (class NewsAgent), driven by               *)
(* NewsAgent.process_query (Spec), two such calls on one NewsAgent          *)
(* (SpecTwo), the POST /api/query handler of src/app/api/main.py, and the   *)
(* chat stream generator of src/app/main.py (SpecStream).                   *)
(*                                                                         *)
(* Text is a sequence of one-character strings, so that strip(), lower(),  *)
(* the relevance regular expression and the substring test are computed    *)
(* the way the Python code computes them.                                  *)
(***************************************************************************)
EXTENDS Integers, Sequences, FiniteSets, TLC

VARIABLES
    pc,                 \* position of process_query: idle, search, filter, summarize, stream_end, returned
    news_api_key,       \* self.news_api_key (set once by __init__)
    state,              \* the NewsAgentState threaded through the workflow nodes
    i,                  \* loop position (1-based) inside _filter_step / _summarize_step
    filtered_articles,  \* local list of _filter_step
    summaries,          \* local list of _summarize_step
    final_state,        \* local of process_query: the last state the stream yielded
    result,             \* the value process_query returned
    provider,           \* what the search provider answered in this run (NoCall before)
    searchCalls,        \* requests.post calls of this run
    genCalls,           \* model.generate_content calls of this run
    genFailures,        \* how many of them raised
    lastGen,            \* the latest generate_content call: stage, article index, outcome,
                        \*   and how many articles the stage had retained before it
    entry,              \* the stage entered last: its name, the state and genCalls it was entered with
    stagesEntered,      \* the workflow nodes entered in this run, in order
    response,           \* what the POST /api/query handler answered for this run
    streamPc,           \* position of stream_agent_response: idle, streaming, done
    full_response,      \* local of stream_agent_response
    yielded,            \* the fragments stream_agent_response has yielded, in order
    lastContent,        \* content of the latest agent message whose content was not empty
    chunks,             \* chunks astream has delivered to this generator
    runs,               \* two calls of process_query on the one NewsAgent: per call its
                        \*   position, state, loop position, final_state, result, and
                        \*   what the providers answered it
    frames              \* the local lists of the node a call is in

\* the variables no step of the pipeline touches
stream == <<streamPc, full_response, yielded, lastContent, chunks>>

concurrent == <<runs, frames>>

outside == <<stream, concurrent>>

single == <<pc, news_api_key, state, i, filtered_articles, summaries, final_state,
            result, provider, searchCalls, genCalls, genFailures, lastGen, entry,
            stagesEntered, response>>

\* the variables the chat stream does not touch
pipeline == <<single, concurrent>>

vars == <<pc, news_api_key, state, i, filtered_articles, summaries, final_state,
          result, provider, searchCalls, genCalls, genFailures, lastGen, entry,
          stagesEntered, response, outside>>

----------------------------------------------------------------------------
(* Bounds *)

\* longest results list the provider returns
MaxArticles == 2

\* chunks one chat stream delivers
MaxChunks == 3

----------------------------------------------------------------------------
(* Python values *)

\* Python None in a str-typed slot
NoneVal == "<None>"

\* bool(s) of an Optional[str]: None and "" are falsy
Truthy(s) == s # NoneVal /\ s # ""

Digits == {"0", "1", "2", "3", "4", "5", "6", "7", "8", "9"}

DigitVal(c) ==
    CASE c = "0" -> 0 [] c = "1" -> 1 [] c = "2" -> 2 [] c = "3" -> 3 [] c = "4" -> 4
      [] c = "5" -> 5 [] c = "6" -> 6 [] c = "7" -> 7 [] c = "8" -> 8 [] c = "9" -> 9

Whitespace == {" ", "\n", "\t"}

\* str.lower() on one character (the letters the texts below use)
LowerChar(c) ==
    CASE c = "R" -> "r" [] c = "E" -> "e" [] c = "L" -> "l" [] c = "V" -> "v"
      [] c = "A" -> "a" [] c = "N" -> "n" [] c = "T" -> "t" [] c = "O" -> "o"
      [] OTHER -> c

\* str.lower()
Lower(s) == [k \in 1..Len(s) |-> LowerChar(s[k])]

\* str.strip(): drop leading and trailing whitespace
Strip(s) ==
    LET keep == {k \in 1..Len(s) : s[k] \notin Whitespace}
    IN  IF keep = {} THEN <<>>
        ELSE LET lo == CHOOSE k \in keep : \A m \in keep : k <= m
                 hi == CHOOSE k \in keep : \A m \in keep : k >= m
             IN  SubSeq(s, lo, hi)

\* w in s (substring test)
Contains(s, w) ==
    \E k \in 1..(Len(s) - Len(w) + 1) : SubSeq(s, k, k + Len(w) - 1) = w

RelevantWord == <<"r", "e", "l", "e", "v", "a", "n", "t">>

----------------------------------------------------------------------------
(* Scores: a float is kept as the fraction n/d, d a power of ten, in lowest *)
(* decimal form, so that 5, 5.0 and 5.00 are one value as they are in      *)
(* Python. d = 0 marks an article that has no "relevance_score" key.       *)

NoScore == [n |-> 0, d |-> 0]

RECURSIVE Normalise(_)
Normalise(x) ==
    IF x.d > 1 /\ x.n % 10 = 0 THEN Normalise([n |-> x.n \div 10, d |-> x.d \div 10])
    ELSE x

IntScore(k) == [n |-> k, d |-> 1]

\* a >= b for two scores
ScoreGeq(a, b) == a.n * b.d >= b.n * a.d

RECURSIVE DigitsVal(_)
DigitsVal(ds) ==
    IF ds = <<>> THEN 0
    ELSE 10 * DigitsVal(SubSeq(ds, 1, Len(ds) - 1)) + DigitVal(ds[Len(ds)])

RECURSIVE Pow10(_)
Pow10(k) == IF k = 0 THEN 1 ELSE 10 * Pow10(k - 1)

\* end of the maximal run of digits of s starting at position k (s[k] is a digit)
RECURSIVE DigitRunEnd(_, _)
DigitRunEnd(s, k) ==
    IF k + 1 <= Len(s) /\ s[k + 1] \in Digits THEN DigitRunEnd(s, k + 1) ELSE k

NoMatch == [found |-> FALSE, int |-> <<>>, frac |-> <<>>]

\* re.search(r'(\d+(?:\.\d+)?)', s): the leftmost match starts at the first
\* digit, \d+ is greedy, and the fraction is taken when a "." and a digit follow
RegexSearch(s) ==
    LET ds == {k \in 1..Len(s) : s[k] \in Digits}
    IN  IF ds = {} THEN NoMatch
        ELSE LET b == CHOOSE k \in ds : \A m \in ds : k <= m
                 e == DigitRunEnd(s, b)
                 hasFrac == e + 2 <= Len(s) /\ s[e + 1] = "." /\ s[e + 2] \in Digits
             IN  [found |-> TRUE,
                  int   |-> SubSeq(s, b, e),
                  frac  |-> IF hasFrac THEN SubSeq(s, e + 2, DigitRunEnd(s, e + 2))
                            ELSE <<>>]

\* float(score_match.group(1))
Float(m) ==
    Normalise([n |-> DigitsVal(m.int \o m.frac), d |-> Pow10(Len(m.frac))])

\* float() raises on no text the pattern can match: a match is a decimal literal
FloatRaises(m) == FALSE

\* the bare except: 5 if "relevant" in response_text.lower() else 0
KeywordScore(text) ==
    IF Contains(Lower(text), RelevantWord) THEN IntScore(5) ELSE IntScore(0)

\* the score _filter_step derives from response_text
ParseScore(text) ==
    LET m == RegexSearch(text)
    IN  IF m.found
        THEN IF FloatRaises(m) THEN KeywordScore(text) ELSE Float(m)
        ELSE IntScore(0)

\* the threshold of _filter_step
Threshold == 5

\* a strict comparison in place of >=
RelevantStrict(score) == ~ScoreGeq(IntScore(Threshold), score)

\* if score >= 5
Relevant(score) == ScoreGeq(score, IntScore(Threshold))

----------------------------------------------------------------------------
(* The text-generation provider: self.model.generate_content(prompt).      *)
(* The call raises, or returns a response whose .text is None or free text. *)

GenRaise == [kind |-> "raise", text |-> <<>>]

GenNone == [kind |-> "none", text |-> <<>>]

GenText(t) == [kind |-> "text", text |-> t]

\* what the model may answer to a relevance prompt
ScoreTexts ==
    { <<>>,
      <<"4">>,
      <<"5">>,
      <<"4", ".", "9">>,
      <<"5", ".", "0">>,
      <<"1", "0">>,
      <<"1", "0", "0">>,
      <<"7", ".", "5">>,
      <<".", "5">>,
      <<" ", "5", "/", "1", "0", "\n">>,
      <<"n", "o">>,
      <<"r", "e", "l", "e", "v", "a", "n", "t">>,
      <<"R", "e", "l", "e", "v", "a", "n", "t">>,
      <<"r", "e", "l", "e", "v", "a", "n", "t", " ", "3">> }

\* what the model may answer to a summary prompt
SummaryTexts ==
    { <<>>,
      <<"o", "k">>,
      <<" ", "o", "k", "\n">> }

ScoreOutcomes == {GenRaise, GenNone} \cup {GenText(t) : t \in ScoreTexts}

SummaryOutcomes == {GenRaise, GenNone} \cup {GenText(t) : t \in SummaryTexts}

\* response.text.strip() if response.text else ""
ResponseText(o) == IF o.kind = "text" /\ o.text # <<>> THEN Strip(o.text) ELSE <<>>

NoGen == [stage |-> "none", index |-> 0, outcome |-> GenNone, before |-> 0]

----------------------------------------------------------------------------
(* The search provider: requests.post(...) and response.json().            *)

\* records of data["articles"]["results"]: a JSON object with the keys in
\* `keys`; a record may lack "title", "body" or "source"
RawRecords ==
    { [keys |-> {"title", "body", "source", "url"},
       title |-> <<"A">>, body |-> <<"a", "a">>, source |-> <<"S">>, url |-> <<"u", "1">>],
      [keys |-> {"body", "url"},
       title |-> <<>>, body |-> <<"b">>, source |-> <<>>, url |-> <<"u", "2">>],
      [keys |-> {"title", "source", "url"},
       title |-> <<"C">>, body |-> <<>>, source |-> <<"S">>, url |-> <<"u", "3">>] }

\* dict.get(key, default)
Get(rec, key, value, default) == IF key \in rec.keys THEN value ELSE default

RECURSIVE SeqsUpTo(_, _)
SeqsUpTo(S, k) ==
    IF k = 0 THEN {<<>>}
    ELSE LET shorter == SeqsUpTo(S, k - 1)
         IN  shorter \cup {Append(q, x) : q \in {r \in shorter : Len(r) = k - 1}, x \in S}

\* shape of the JSON document: no "articles" key, "articles" without "results",
\* or a results list
ProviderOutcomes ==
    { [kind |-> "transport", status |-> 0, results |-> <<>>],
      [kind |-> "http", status |-> 500, results |-> <<>>],
      [kind |-> "http", status |-> 404, results |-> <<>>],
      [kind |-> "not_json", status |-> 200, results |-> <<>>],
      [kind |-> "no_articles_key", status |-> 200, results |-> <<>>],
      [kind |-> "no_results_key", status |-> 200, results |-> <<>>] }
    \cup {[kind |-> "results", status |-> 200, results |-> rs] :
             rs \in SeqsUpTo(RawRecords, MaxArticles)}

NoCall == [kind |-> "no_call", status |-> 0, results |-> <<>>]

Queries == {"visa in the usa", ""}

\* os.getenv("NEWS_API_KEY"): unset (None) or a key
ApiKeys == {NoneVal, "key"}

----------------------------------------------------------------------------
(* NewsAgentState and the three stages                                     *)

\* NewsAgentState(query=query, articles=[], summaries=[], current_step="initial", error=None)
InitialState(q) ==
    [query |-> q, articles |-> <<>>, summaries |-> <<>>,
     current_step |-> "initial", error |-> NoneVal]

\* final_state = None, and the result slot while process_query has not returned
Pending ==
    [query |-> "", articles |-> <<>>, summaries |-> <<>>,
     current_step |-> "<pending>", error |-> NoneVal]

\* processed_article reading the text under the key "content"
ProcessedArticleContentKey(raw) ==
    [title   |-> Get(raw, "title", raw.title, <<>>),
     content |-> Get(raw, "content", raw.body, <<>>),
     source  |-> Get(raw, "source", raw.source, <<"U", "n", "k", "n", "o", "w", "n">>),
     url     |-> Get(raw, "url", raw.url, <<>>),
     relevance_score |-> NoScore]

\* processed_article of _search_step (published_at, sentiment, authors and
\* image are copied through the same way and read by no stage)
ProcessedArticle(raw) ==
    [title   |-> Get(raw, "title", raw.title, <<>>),
     content |-> Get(raw, "body", raw.body, <<>>),
     source  |-> Get(raw, "source", raw.source, <<"U", "n", "k", "n", "o", "w", "n">>),
     url     |-> Get(raw, "url", raw.url, <<>>),
     relevance_score |-> NoScore]

\* an except branch that records the message and leaves the marker
StageErrorKeepsStep(st, message, step) ==
    [st EXCEPT !.error = message]

\* the except branch of a stage: state.error and state.current_step are set
StageError(st, message, step) ==
    [st EXCEPT !.error = message, !.current_step = step]

\* _search_step without the status check: the body of a failed response is parsed
SearchStepResultNoStatusCheck(st, key, resp) ==
    IF ~Truthy(key)
    THEN StageError(st, "Search error: NEWS_API_KEY environment variable is not set",
                    "search_error")
    ELSE CASE resp.kind = "transport" ->
                StageError(st, "Search error: connection failed", "search_error")
           [] resp.kind = "not_json" ->
                StageError(st, "Search error: invalid JSON", "search_error")
           [] resp.kind = "no_articles_key" ->
                StageError(st, "Search error: No articles found in the response",
                           "search_error")
           [] resp.kind = "no_results_key" ->
                StageError(st, "Search error: 'results'", "search_error")
           [] OTHER ->
                [st EXCEPT !.articles = [k \in 1..Len(resp.results) |->
                                            ProcessedArticle(resp.results[k])],
                           !.current_step = "search_complete",
                           !.error = NoneVal]

\* _search_step, given what requests.post / response.json() produced
SearchStepResult(st, key, resp) ==
    IF ~Truthy(key)
    THEN StageError(st, "Search error: NEWS_API_KEY environment variable is not set",
                    "search_error")
    ELSE CASE resp.kind = "transport" ->
                StageError(st, "Search error: connection failed", "search_error")
           [] resp.kind = "http" /\ resp.status # 200 ->
                StageError(st, "Search error: NewsAPI request failed with status",
                           "search_error")
           [] resp.kind = "not_json" ->
                StageError(st, "Search error: invalid JSON", "search_error")
           [] resp.kind = "no_articles_key" ->
                StageError(st, "Search error: No articles found in the response",
                           "search_error")
           [] resp.kind = "no_results_key" ->
                StageError(st, "Search error: 'results'", "search_error")
           [] OTHER ->
                [st EXCEPT !.articles = [k \in 1..Len(resp.results) |->
                                            ProcessedArticle(resp.results[k])],
                           !.current_step = "search_complete",
                           !.error = NoneVal]

\* fail-closed: an article whose scoring call raised is dropped
FilterScoreFailClosed(o) ==
    IF o.kind = "raise" THEN NoScore
    ELSE LET score == ParseScore(ResponseText(o))
         IN  IF Relevant(score) THEN score ELSE NoScore

\* one pass of the loop body of _filter_step on `article`, the model having
\* answered `o`: the score attached (NoScore when the article is dropped)
FilterScore(o) ==
    IF o.kind = "raise" THEN IntScore(5)
    ELSE LET score == ParseScore(ResponseText(o))
         IN  IF Relevant(score) THEN score ELSE NoScore

\* the fallback taking the title instead of the content
SummaryOfTitle(article, o) ==
    IF o.kind = "raise" THEN article.title ELSE ResponseText(o)

\* one pass of the loop body of _summarize_step: the summary appended
SummaryOf(article, o) ==
    IF o.kind = "raise" THEN article.content ELSE ResponseText(o)

\* NewsAgentState(**current_state): summaries is declared List[Dict[str, Any]]
\* and _summarize_step fills it with str, which the model class rejects
Validates(st) == st.summaries = <<>>

\* the except branch of process_query reusing a stage's marker
ExecutionErrorAsStageError(q) ==
    [query |-> q, articles |-> <<>>, summaries |-> <<>>,
     current_step |-> "summarize_error",
     error |-> "Workflow execution error: validation error for NewsAgentState"]

\* the dictionary the except branch of process_query returns
ExecutionError(q) ==
    [query |-> q, articles |-> <<>>, summaries |-> <<>>,
     current_step |-> "execution_error",
     error |-> "Workflow execution error: validation error for NewsAgentState"]

----------------------------------------------------------------------------
(* src/app/api/main.py: POST /api/query                                    *)

\* an error detail is a pair: what str() puts in front, and the message
NoDetail == <<"", "">>

NoResponse == [status |-> 0, detail |-> NoDetail, body |-> <<>>]

\* `await news_agent.process_query(...)`: process_query is a plain def, so the
\* awaited value is the dict it returned, and awaiting a dict raises TypeError
AwaitRaises(res) == TRUE

\* str(e) of the HTTPException raised inside the try (it is caught by the
\* handler's own `except Exception`, which answers with str(e))
HttpExceptionText(detail) == <<"500: ", detail>>

\* the handler: 500 with str(e) for whatever the try block raised, else the
\* summaries of the result
HandlerResponse(res) ==
    IF AwaitRaises(res)
    THEN [status |-> 500,
          detail |-> <<"", "object dict can't be used in 'await' expression">>,
          body   |-> <<>>]
    ELSE IF Truthy(res.error)
         THEN [status |-> 500, detail |-> HttpExceptionText(res.error), body |-> <<>>]
         ELSE [status |-> 200, detail |-> NoDetail, body |-> res.summaries]

----------------------------------------------------------------------------
(* process_query and the workflow START -> search -> filter -> summarize -> END *)

NoEntry == [stage |-> "none", state |-> Pending, genCalls |-> 0]

\* the two calls in flight on the shared instance
Runs == {"r1", "r2"}

\* a call that has not begun
IdleRun ==
    [pc |-> "idle", state |-> InitialState(""), i |-> 1, final_state |-> Pending,
     result |-> Pending, resp |-> NoCall, gens |-> <<>>, overlapped |-> FALSE]

\* filtered_articles and summaries of a node call
NoLocals == [filtered_articles |-> <<>>, summaries |-> <<>>]

\* a node is entered with `state` (recorded on the first step of the stage)
Enter(stage) ==
    /\ entry' = IF i = 1 THEN [stage |-> stage, state |-> state, genCalls |-> genCalls]
                ELSE entry
    /\ stagesEntered' = IF i = 1 THEN Append(stagesEntered, stage) ELSE stagesEntered

Init ==
    /\ pc = "idle"
    /\ news_api_key \in ApiKeys
    /\ state = InitialState("")
    /\ i = 1
    /\ filtered_articles = <<>>
    /\ summaries = <<>>
    /\ final_state = Pending
    /\ result = Pending
    /\ provider = NoCall
    /\ searchCalls = 0
    /\ genCalls = 0
    /\ genFailures = 0
    /\ lastGen = NoGen
    /\ entry = NoEntry
    /\ stagesEntered = <<>>
    /\ response = NoResponse
    /\ streamPc = "idle"
    /\ full_response = <<>>
    /\ yielded = <<>>
    /\ lastContent = <<>>
    /\ chunks = 0
    /\ runs = [r \in Runs |-> IdleRun]
    /\ frames = [r \in Runs |-> NoLocals]

\* process_query up to the first node: a fresh NewsAgentState per call
ProcessQuery(q) ==
    /\ pc \in {"idle", "returned"}
    /\ pc' = "search"
    /\ state' = InitialState(q)
    /\ i' = 1
    /\ filtered_articles' = <<>>
    /\ summaries' = <<>>
    /\ final_state' = Pending
    /\ result' = Pending
    /\ provider' = NoCall
    /\ searchCalls' = 0
    /\ genCalls' = 0
    /\ genFailures' = 0
    /\ lastGen' = NoGen
    /\ entry' = NoEntry
    /\ stagesEntered' = <<>>
    /\ response' = NoResponse
    /\ UNCHANGED <<outside, news_api_key>>

\* a workflow that runs the search node again after a failed search
LoopBodyRetry(st, next) ==
    IF Validates(st)
    THEN /\ pc' = IF st.current_step = "search_error" THEN "search" ELSE next
         /\ final_state' = st
         /\ UNCHANGED result
    ELSE /\ pc' = "returned"
         /\ result' = ExecutionError(st.query)
         /\ UNCHANGED final_state

\* the body of `for current_state in self.workflow.stream(...)` on the state a
\* node returned: NewsAgentState(**current_state), then final_state = current_state;
\* a validation error lands in the except branch, which returns at once
LoopBody(st, next) ==
    IF Validates(st)
    THEN /\ pc' = next
         /\ final_state' = st
         /\ UNCHANGED result
    ELSE /\ pc' = "returned"
         /\ result' = ExecutionError(st.query)
         /\ UNCHANGED final_state

\* the search node
SearchStep ==
    /\ pc = "search"
    /\ \E resp \in ProviderOutcomes :
          /\ state' = SearchStepResult(state, news_api_key, resp)
          /\ provider' = IF Truthy(news_api_key) THEN resp ELSE NoCall
    /\ searchCalls' = IF Truthy(news_api_key) THEN searchCalls + 1 ELSE searchCalls
    /\ LoopBody(state', "filter")
    /\ stagesEntered' = Append(stagesEntered, "search")
    /\ UNCHANGED <<outside, response, news_api_key, i, filtered_articles, summaries, genCalls,
                   genFailures, lastGen, entry>>

\* the filter node without its error check: the body runs on the failed state
FilterSkipRunsBody ==
    /\ pc = "filter"
    /\ Truthy(state.error)
    /\ state' = StageError(state, "Filter error: No articles to filter", "filter_error")
    /\ LoopBody(state', "summarize")
    /\ Enter("filter")
    /\ UNCHANGED <<outside, response, news_api_key, i, filtered_articles, summaries, provider,
                   searchCalls, genCalls, genFailures, lastGen>>

\* the filter node entered with state.error set: return state
FilterSkip ==
    /\ pc = "filter"
    /\ Truthy(state.error)
    /\ state' = state
    /\ LoopBody(state', "summarize")
    /\ Enter("filter")
    /\ UNCHANGED <<outside, response, news_api_key, i, filtered_articles, summaries, provider,
                   searchCalls, genCalls, genFailures, lastGen>>

\* the filter node entered with no articles: raise ValueError("No articles to filter")
FilterNoArticles ==
    /\ pc = "filter"
    /\ ~Truthy(state.error)
    /\ state.articles = <<>>
    /\ state' = StageError(state, "Filter error: No articles to filter", "filter_error")
    /\ LoopBody(state', "summarize")
    /\ Enter("filter")
    /\ UNCHANGED <<outside, response, news_api_key, i, filtered_articles, summaries, provider,
                   searchCalls, genCalls, genFailures, lastGen>>

\* the retained article put in front of the list
RetainFront(list, article) == <<article>> \o list

\* filtered_articles.append(article)
Retain(list, article) == Append(list, article)

\* one pass of `for i, article in enumerate(state.articles)`; the pass over the
\* last article runs on into the assignments behind the loop and returns
FilterArticle ==
    /\ pc = "filter"
    /\ ~Truthy(state.error)
    /\ state.articles # <<>>
    /\ \E o \in ScoreOutcomes :
          LET score    == FilterScore(o)
              article  == [state.articles[i] EXCEPT !.relevance_score = score]
              scored   == IF score = NoScore THEN state.articles
                          ELSE [state.articles EXCEPT ![i] = article]
              retained == IF score = NoScore THEN filtered_articles
                          ELSE Retain(filtered_articles, article)
          IN  /\ lastGen' = [stage |-> "filter", index |-> i, outcome |-> o,
                              before |-> Len(filtered_articles)]
              /\ genCalls' = genCalls + 1
              /\ genFailures' = IF o.kind = "raise" THEN genFailures + 1 ELSE genFailures
              /\ IF i < Len(state.articles)
                 THEN /\ state' = [state EXCEPT !.articles = scored]
                      /\ filtered_articles' = retained
                      /\ i' = i + 1
                      /\ UNCHANGED <<pc, final_state, result>>
                 ELSE /\ state' = [state EXCEPT !.articles = retained,
                                                !.current_step = "filtering_complete",
                                                !.error = NoneVal]
                      /\ filtered_articles' = <<>>
                      /\ i' = 1
                      /\ LoopBody(state', "summarize")
    /\ Enter("filter")
    /\ UNCHANGED <<outside, response, news_api_key, summaries, provider, searchCalls>>

\* the summarize node marking itself complete while it skips
SummarizeSkipMarksStep ==
    /\ pc = "summarize"
    /\ Truthy(state.error)
    /\ state' = [state EXCEPT !.current_step = "summarizing_complete"]
    /\ LoopBody(state', "stream_end")
    /\ Enter("summarize")
    /\ UNCHANGED <<outside, response, news_api_key, i, filtered_articles, summaries, provider,
                   searchCalls, genCalls, genFailures, lastGen>>

\* the summarize node entered with state.error set: return state
SummarizeSkip ==
    /\ pc = "summarize"
    /\ Truthy(state.error)
    /\ state' = state
    /\ LoopBody(state', "stream_end")
    /\ Enter("summarize")
    /\ UNCHANGED <<outside, response, news_api_key, i, filtered_articles, summaries, provider,
                   searchCalls, genCalls, genFailures, lastGen>>

\* the summarize node treating an empty article list as a no-op
SummarizeNoArticlesPassThrough ==
    /\ pc = "summarize"
    /\ ~Truthy(state.error)
    /\ state.articles = <<>>
    /\ state' = [state EXCEPT !.summaries = <<>>,
                              !.current_step = "summarizing_complete",
                              !.error = NoneVal]
    /\ LoopBody(state', "stream_end")
    /\ Enter("summarize")
    /\ UNCHANGED <<outside, response, news_api_key, i, filtered_articles, summaries, provider,
                   searchCalls, genCalls, genFailures, lastGen>>

\* the summarize node entered with no articles: raise ValueError("No articles to summarize")
SummarizeNoArticles ==
    /\ pc = "summarize"
    /\ ~Truthy(state.error)
    /\ state.articles = <<>>
    /\ state' = StageError(state, "Summarize error: No articles to summarize",
                           "summarize_error")
    /\ LoopBody(state', "stream_end")
    /\ Enter("summarize")
    /\ UNCHANGED <<outside, response, news_api_key, i, filtered_articles, summaries, provider,
                   searchCalls, genCalls, genFailures, lastGen>>

\* one pass of `for article in state.articles`; the pass over the last article
\* runs on into the assignments behind the loop and returns
SummarizeArticle ==
    /\ pc = "summarize"
    /\ ~Truthy(state.error)
    /\ state.articles # <<>>
    /\ \E o \in SummaryOutcomes :
          LET appended == Append(summaries, SummaryOf(state.articles[i], o))
          IN  /\ lastGen' = [stage |-> "summarize", index |-> i, outcome |-> o,
                              before |-> Len(summaries)]
              /\ genCalls' = genCalls + 1
              /\ genFailures' = IF o.kind = "raise" THEN genFailures + 1 ELSE genFailures
              /\ IF i < Len(state.articles)
                 THEN /\ summaries' = appended
                      /\ i' = i + 1
                      /\ UNCHANGED <<pc, state, final_state, result>>
                 ELSE /\ state' = [state EXCEPT !.summaries = appended,
                                                !.current_step = "summarizing_complete",
                                                !.error = NoneVal]
                      /\ summaries' = <<>>
                      /\ i' = 1
                      /\ LoopBody(state', "stream_end")
    /\ Enter("summarize")
    /\ UNCHANGED <<outside, response, news_api_key, filtered_articles, provider, searchCalls>>

\* behind the loop: NewsAgentState(**final_state).model_dump() is returned
\* (final_state was validated by the loop body, and is never None: the stream
\* yields once per node)
ReturnFinalState ==
    /\ pc = "stream_end"
    /\ pc' = "returned"
    /\ result' = final_state
    /\ UNCHANGED <<outside, response, news_api_key, state, i, filtered_articles, summaries, final_state,
                   provider, searchCalls, genCalls, genFailures, lastGen, entry,
                   stagesEntered>>

\* the POST /api/query handler of src/app/api/main.py, once the call of
\* news_agent.process_query it makes has returned
ApiProcessQuery ==
    /\ pc = "returned"
    /\ response = NoResponse
    /\ response' = HandlerResponse(result)
    /\ UNCHANGED <<outside, pc, news_api_key, state, i, filtered_articles, summaries, final_state,
                   result, provider, searchCalls, genCalls, genFailures, lastGen, entry,
                   stagesEntered>>

Next ==
    \/ \E q \in Queries : ProcessQuery(q)
    \/ SearchStep
    \/ FilterSkip
    \/ FilterNoArticles
    \/ FilterArticle
    \/ SummarizeSkip
    \/ SummarizeNoArticles
    \/ SummarizeArticle
    \/ ReturnFinalState
    \/ ApiProcessQuery

Spec == Init /\ [][Next]_vars

----------------------------------------------------------------------------
(* src/app/main.py: stream_agent_response, the generator behind POST /chat  *)

\* contents of agent messages
Messages == { <<>>, <<"a">>, <<"a", "b">>, <<"b">>, <<"x", "y", "z">> }

\* a chunk of agent_executor.astream: a dict with one key; under "agent" a
\* dict whose "messages" may be empty; the last message's content is a
\* string or None
Chunks ==
    { [key |-> "tools", messages |-> TRUE,  isNone |-> FALSE, content |-> <<"t">>],
      [key |-> "agent", messages |-> FALSE, isNone |-> FALSE, content |-> <<>>],
      [key |-> "agent", messages |-> TRUE,  isNone |-> TRUE,  content |-> <<>>] }
    \cup {[key |-> "agent", messages |-> TRUE, isNone |-> FALSE, content |-> c] :
             c \in Messages}

\* content of messages[-1], None replaced by ""
Content(chunk) == IF chunk.isNone THEN <<>> ELSE chunk.content

\* text[n:]
SliceFrom(text, n) == SubSeq(text, n + 1, Len(text))

\* "".join(fragments)
RECURSIVE Join(_)
Join(fragments) ==
    IF fragments = <<>> THEN <<>> ELSE Head(fragments) \o Join(Tail(fragments))

\* the generator is started: full_response = ""
StreamAgentResponse ==
    /\ streamPc \in {"idle", "done"}
    /\ streamPc' = "streaming"
    /\ full_response' = <<>>
    /\ yielded' = <<>>
    /\ lastContent' = <<>>
    /\ chunks' = 0
    /\ UNCHANGED pipeline

\* one turn of the `async for chunk` loop
StreamChunk(chunk) ==
    /\ streamPc = "streaming"
    /\ chunks < MaxChunks
    /\ chunks' = chunks + 1
    /\ IF chunk.key = "agent" /\ chunk.messages
       THEN LET content     == Content(chunk)
                new_content == SliceFrom(content, Len(full_response))
            IN  /\ lastContent' = IF content # <<>> THEN content ELSE lastContent
                /\ IF content # <<>> /\ new_content # <<>>
                   THEN /\ yielded' = Append(yielded, new_content)
                        /\ full_response' = content
                   ELSE UNCHANGED <<yielded, full_response>>
       ELSE UNCHANGED <<yielded, full_response, lastContent>>
    /\ UNCHANGED <<streamPc, pipeline>>

\* astream is exhausted and the generator returns
StreamEnd ==
    /\ streamPc = "streaming"
    /\ streamPc' = "done"
    /\ UNCHANGED <<full_response, yielded, lastContent, chunks, pipeline>>

NextStream ==
    \/ StreamAgentResponse
    \/ \E chunk \in Chunks : StreamChunk(chunk)
    \/ StreamEnd

SpecStream == Init /\ [][NextStream]_vars

----------------------------------------------------------------------------
(* Two calls of process_query in flight on the one NewsAgent of             *)
(* src/app/api/main.py. The instance holds news_api_key, model and workflow, *)
(* which no call writes; the state and the local lists belong to the call.  *)

Other(r) == CHOOSE o \in Runs : o # r

InProgress(run) == run.pc \in {"search", "filter", "summarize", "stream_end"}

\* what the providers answer the two calls
RecordA == CHOOSE raw \in RawRecords : {"title", "body"} \subseteq raw.keys

RecordB == CHOOSE raw \in RawRecords : "title" \notin raw.keys

ConcAnswers ==
    { [kind |-> "transport", status |-> 0, results |-> <<>>],
      [kind |-> "results", status |-> 200, results |-> <<>>],
      [kind |-> "results", status |-> 200, results |-> <<RecordA>>],
      [kind |-> "results", status |-> 200, results |-> <<RecordA, RecordB>>] }

ConcScoreOutcomes == {GenRaise, GenText(<<"4">>), GenText(<<"7", ".", "5">>)}

ConcSummaryOutcomes == {GenRaise, GenText(<<"o", "k">>)}

\* all frames being one: the local lists kept on the shared instance
FrameShared(r) == "r1"

\* the frame holding the local lists of call r: its own
Frame(r) == r

\* LoopBody on the record of a call
RunLoopBody(run, next) ==
    IF Validates(run.state)
    THEN [run EXCEPT !.pc = next, !.final_state = run.state]
    ELSE [run EXCEPT !.pc = "returned", !.result = ExecutionError(run.state.query)]

\* call r moves on to `run` (noting whether the other call was under way)
Advance(r, run) ==
    runs' = [runs EXCEPT ![r] =
                [run EXCEPT !.overlapped = @ \/ InProgress(runs[Other(r)])]]

ConcProcessQuery(r, q) ==
    /\ runs[r].pc = "idle"
    /\ Advance(r, [runs[r] EXCEPT !.pc = "search", !.state = InitialState(q)])
    /\ UNCHANGED <<frames, single, stream>>

ConcSearchStep(r) ==
    /\ runs[r].pc = "search"
    /\ \E resp \in ConcAnswers :
          Advance(r, RunLoopBody(
                        [runs[r] EXCEPT
                            !.state = SearchStepResult(@, news_api_key, resp),
                            !.resp = IF Truthy(news_api_key) THEN resp ELSE NoCall],
                        "filter"))
    /\ UNCHANGED <<frames, single, stream>>

ConcFilterSkip(r) ==
    /\ runs[r].pc = "filter"
    /\ Truthy(runs[r].state.error)
    /\ Advance(r, RunLoopBody(runs[r], "summarize"))
    /\ UNCHANGED <<frames, single, stream>>

ConcFilterNoArticles(r) ==
    /\ runs[r].pc = "filter"
    /\ ~Truthy(runs[r].state.error)
    /\ runs[r].state.articles = <<>>
    /\ Advance(r, RunLoopBody(
                    [runs[r] EXCEPT
                        !.state = StageError(@, "Filter error: No articles to filter",
                                             "filter_error")],
                    "summarize"))
    /\ UNCHANGED <<frames, single, stream>>

ConcFilterArticle(r) ==
    /\ runs[r].pc = "filter"
    /\ ~Truthy(runs[r].state.error)
    /\ runs[r].state.articles # <<>>
    /\ \E o \in ConcScoreOutcomes :
          LET run      == [runs[r] EXCEPT !.gens = Append(@, o)]
              k        == run.i
              before   == IF k = 1 THEN <<>> ELSE frames[Frame(r)].filtered_articles
              score    == FilterScore(o)
              article  == [run.state.articles[k] EXCEPT !.relevance_score = score]
              scored   == IF score = NoScore THEN run.state.articles
                          ELSE [run.state.articles EXCEPT ![k] = article]
              retained == IF score = NoScore THEN before ELSE Retain(before, article)
          IN  /\ frames' = [frames EXCEPT ![Frame(r)].filtered_articles = retained]
              /\ IF k < Len(run.state.articles)
                 THEN Advance(r, [run EXCEPT !.state.articles = scored, !.i = k + 1])
                 ELSE Advance(r, RunLoopBody(
                                    [run EXCEPT
                                        !.state = [@ EXCEPT
                                                     !.articles = retained,
                                                     !.current_step = "filtering_complete",
                                                     !.error = NoneVal],
                                        !.i = 1],
                                    "summarize"))
    /\ UNCHANGED <<single, stream>>

ConcSummarizeSkip(r) ==
    /\ runs[r].pc = "summarize"
    /\ Truthy(runs[r].state.error)
    /\ Advance(r, RunLoopBody(runs[r], "stream_end"))
    /\ UNCHANGED <<frames, single, stream>>

ConcSummarizeNoArticles(r) ==
    /\ runs[r].pc = "summarize"
    /\ ~Truthy(runs[r].state.error)
    /\ runs[r].state.articles = <<>>
    /\ Advance(r, RunLoopBody(
                    [runs[r] EXCEPT
                        !.state = StageError(@, "Summarize error: No articles to summarize",
                                             "summarize_error")],
                    "stream_end"))
    /\ UNCHANGED <<frames, single, stream>>

ConcSummarizeArticle(r) ==
    /\ runs[r].pc = "summarize"
    /\ ~Truthy(runs[r].state.error)
    /\ runs[r].state.articles # <<>>
    /\ \E o \in ConcSummaryOutcomes :
          LET run      == [runs[r] EXCEPT !.gens = Append(@, o)]
              k        == run.i
              before   == IF k = 1 THEN <<>> ELSE frames[Frame(r)].summaries
              appended == Append(before, SummaryOf(run.state.articles[k], o))
          IN  /\ frames' = [frames EXCEPT ![Frame(r)].summaries = appended]
              /\ IF k < Len(run.state.articles)
                 THEN Advance(r, [run EXCEPT !.i = k + 1])
                 ELSE Advance(r, RunLoopBody(
                                    [run EXCEPT
                                        !.state = [@ EXCEPT
                                                     !.summaries = appended,
                                                     !.current_step = "summarizing_complete",
                                                     !.error = NoneVal],
                                        !.i = 1],
                                    "stream_end"))
    /\ UNCHANGED <<single, stream>>

ConcReturnFinalState(r) ==
    /\ runs[r].pc = "stream_end"
    /\ Advance(r, [runs[r] EXCEPT !.pc = "returned", !.result = runs[r].final_state])
    /\ UNCHANGED <<frames, single, stream>>

NextTwo ==
    \/ \E r \in Runs, q \in Queries : ConcProcessQuery(r, q)
    \/ \E r \in Runs : ConcSearchStep(r)
    \/ \E r \in Runs : ConcFilterSkip(r)
    \/ \E r \in Runs : ConcFilterNoArticles(r)
    \/ \E r \in Runs : ConcFilterArticle(r)
    \/ \E r \in Runs : ConcSummarizeSkip(r)
    \/ \E r \in Runs : ConcSummarizeNoArticles(r)
    \/ \E r \in Runs : ConcSummarizeArticle(r)
    \/ \E r \in Runs : ConcReturnFinalState(r)

SpecTwo == Init /\ [][NextTwo]_vars

\* A call running alone, as one function of its query and of what the
\* providers answered it (gens: the answers of generate_content in call order)

\* the answer to the k-th call (no answer: the call was not made)
GenAt(gens, k) == IF k \in 1..Len(gens) THEN gens[k] ELSE GenNone

\* the loop of _filter_step over `articles`
RECURSIVE FilterLoop(_, _)
FilterLoop(articles, gens) ==
    IF articles = <<>> THEN <<>>
    ELSE LET k     == Len(articles)
             front == FilterLoop(SubSeq(articles, 1, k - 1), gens)
             score == FilterScore(GenAt(gens, k))
         IN  IF score = NoScore THEN front
             ELSE Retain(front, [articles[k] EXCEPT !.relevance_score = score])

\* generate_content calls _filter_step makes on st
FilterCalls(st) == IF Truthy(st.error) THEN 0 ELSE Len(st.articles)

AloneFilterStep(st, gens) ==
    IF Truthy(st.error) THEN st
    ELSE IF st.articles = <<>>
         THEN StageError(st, "Filter error: No articles to filter", "filter_error")
         ELSE [st EXCEPT !.articles = FilterLoop(st.articles, gens),
                         !.current_step = "filtering_complete",
                         !.error = NoneVal]

\* the loop of _summarize_step over `articles`
RECURSIVE SummarizeLoop(_, _)
SummarizeLoop(articles, gens) ==
    IF articles = <<>> THEN <<>>
    ELSE LET k == Len(articles)
         IN  Append(SummarizeLoop(SubSeq(articles, 1, k - 1), gens),
                    SummaryOf(articles[k], GenAt(gens, k)))

AloneSummarizeStep(st, gens) ==
    IF Truthy(st.error) THEN st
    ELSE IF st.articles = <<>>
         THEN StageError(st, "Summarize error: No articles to summarize",
                         "summarize_error")
         ELSE [st EXCEPT !.summaries = SummarizeLoop(st.articles, gens),
                         !.current_step = "summarizing_complete",
                         !.error = NoneVal]

\* the state the summarize node returns
AloneState(q, key, resp, gens) ==
    LET searched == SearchStepResult(InitialState(q), key, resp)
        n        == FilterCalls(searched)
        filtered == AloneFilterStep(searched, SubSeq(gens, 1, n))
    IN  AloneSummarizeStep(filtered, SubSeq(gens, n + 1, Len(gens)))

\* generate_content calls of the whole run
AloneCalls(q, key, resp, gens) ==
    LET searched == SearchStepResult(InitialState(q), key, resp)
        n        == FilterCalls(searched)
        filtered == AloneFilterStep(searched, SubSeq(gens, 1, n))
    IN  n + FilterCalls(filtered)

\* what process_query returns
AloneResult(q, key, resp, gens) ==
    LET st == AloneState(q, key, resp, gens)
    IN  IF Validates(st) THEN st ELSE ExecutionError(q)

----------------------------------------------------------------------------
(* Properties                                                              *)

StageErrorSteps == {"search_error", "filter_error", "summarize_error"}

StateFields == {"query", "articles", "summaries", "current_step", "error"}

\* the stage entered last has returned
Returned(stage) == entry.stage = stage /\ pc # stage

\* the articles _filter_step has retained so far (its local list inside the
\* loop, state.articles once it has returned)
RetainedSoFar == IF pc = "filter" THEN filtered_articles ELSE state.articles

\* the latest scoring call was about an article of the filter stage entered last
ScoredLast == lastGen.stage = "filter" /\ entry.stage = "filter"

\* the article scored last was appended, annotated with `score`
RetainedLast(score) ==
    /\ Len(RetainedSoFar) = lastGen.before + 1
    /\ RetainedSoFar[Len(RetainedSoFar)] =
          [entry.state.articles[lastGen.index] EXCEPT !.relevance_score = score]

\* the article scored last was not appended
DroppedLast == Len(RetainedSoFar) = lastGen.before

\* C1 (absorption): a filter or summarize stage entered with a non-null error
\* returns the state it received, equal in every field, and has made no
\* text-generation call.
C1_Absorption ==
    \A stage \in {"filter", "summarize"} :
        (Returned(stage) /\ entry.state.error # NoneVal)
            => (state = entry.state /\ genCalls = entry.genCalls)

\* both stages were passed with the error of the search stage
C1_Witness ==
    /\ pc = "stream_end"
    /\ entry.stage = "summarize"
    /\ entry.state.current_step = "search_error"
    /\ entry.state.error # NoneVal

AllowedMoves ==
    { <<"initial", "search_complete">>, <<"initial", "search_error">>,
      <<"search_complete", "filtering_complete">>, <<"search_complete", "filter_error">>,
      <<"filtering_complete", "summarizing_complete">>,
      <<"filtering_complete", "summarize_error">> }

\* C2: within a run the stage marker moves only along the allowed transitions,
\* an error marker never changes again, and a recorded error is never
\* overwritten (the error is written at most once).
C2_MarkerTransitions ==
    [][ pc \notin {"idle", "returned"} =>
          /\ (state'.current_step # state.current_step
                => <<state.current_step, state'.current_step>> \in AllowedMoves)
          /\ (state.current_step \in StageErrorSteps
                => state'.current_step = state.current_step)
          /\ (state.error # NoneVal => state'.error = state.error) ]_vars

\* a run that moved through all three transitions and failed in the last stage
C2_Witness ==
    /\ pc = "stream_end"
    /\ state.current_step = "summarize_error"
    /\ state.error = "Summarize error: No articles to summarize"

ZeroArticles ==
    \/ provider.kind \in {"no_articles_key", "no_results_key"}
    \/ provider.kind = "results" /\ provider.results = <<>>

\* C4 (scenario E): a successful answer with zero articles ends the run with
\* marker search_error, a non-null error and no text-generation call.
C4_ZeroArticlesIsSearchError ==
    (pc = "returned" /\ ZeroArticles)
        => /\ result.current_step = "search_error"
           /\ result.error # NoneVal
           /\ genCalls = 0

\* the request failed in transport or came back with a non-success status
RequestFailed ==
    \/ provider.kind = "transport"
    \/ provider.kind = "http" /\ provider.status # 200

EnteredEmpty(stage) ==
    /\ Returned(stage)
    /\ entry.state.error = NoneVal
    /\ entry.state.articles = <<>>

C7_MalformedOutputNeverAnError ==
    (pc = "returned" /\ provider.kind = "results" /\ provider.results # <<>>
        /\ genFailures = 0)
        => /\ result.error = NoneVal
           /\ result.current_step = "summarizing_complete"

\* C8 (threshold, P5): an article whose scoring call returned a response is
\* retained, annotated with its score, if and only if the score derived from
\* the response is at least 5.
C8_Threshold ==
    (ScoredLast /\ lastGen.outcome.kind # "raise")
        => LET score == ParseScore(ResponseText(lastGen.outcome))
           IN  IF ScoreGeq(score, IntScore(5)) THEN RetainedLast(score) ELSE DroppedLast

\* the first article was retained and the second, scored 4.9, was dropped
C8_Witness ==
    /\ ScoredLast
    /\ pc = "summarize"
    /\ lastGen.index = 2
    /\ lastGen.outcome = GenText(<<"4", ".", "9">>)
    /\ lastGen.before = 1
    /\ Len(state.articles) = 1

\* the score as C9 derives it: the first number of the response, else 5 when
\* the response contains "relevant" in any case, else 0
ClaimedScore(text) ==
    LET m == RegexSearch(text)
    IN  IF m.found THEN Float(m) ELSE KeywordScore(text)

\* C9: the score of an article is the first number in the response, and
\* without a number 5 when the response contains "relevant", otherwise 0
\* (seen through what the score decides: retention and the annotation).
C9_ScoreDerivation ==
    (ScoredLast /\ lastGen.outcome.kind # "raise")
        => LET score == ClaimedScore(ResponseText(lastGen.outcome))
           IN  IF ScoreGeq(score, IntScore(5)) THEN RetainedLast(score) ELSE DroppedLast

\* C10 (fail-open, P4): an article whose scoring call raised is retained with
\* score 5; a filter stage in which a call raised still scores every article
\* and returns without error, marker filtering_complete.
C10_FailOpen ==
    /\ (ScoredLast /\ lastGen.outcome.kind = "raise") => RetainedLast(IntScore(5))
    /\ (Returned("filter") /\ genFailures > 0)
          => /\ genCalls = Len(entry.state.articles)
             /\ state.error = NoneVal
             /\ state.current_step = "filtering_complete"

\* the call for the first of two articles raised, the second was scored and dropped
C10_Witness ==
    /\ Returned("filter")
    /\ genFailures = 1
    /\ Len(entry.state.articles) = 2
    /\ lastGen.index = 2
    /\ lastGen.outcome.kind = "text"
    /\ Len(state.articles) = 1
    /\ state.articles[1].relevance_score = IntScore(5)
    /\ state.articles[1].url = entry.state.articles[1].url

\* the summaries _summarize_step has collected so far (its local list inside
\* the loop, state.summaries once it has returned)
SummariesSoFar == IF pc = "summarize" THEN summaries ELSE state.summaries

\* C11 (order preservation, P2): each pass of the summarize loop over a
\* non-empty article list entered without error appends exactly one summary,
\* at the position of the article it was generated for, and leaves the earlier
\* summaries and the articles as they were; when the call raised the summary
\* is that article's content; the stage returns with one summary per article.
C11_OrderPreservation ==
    [][ (pc = "summarize" /\ ~Truthy(state.error) /\ state.articles # <<>>) =>
          LET index == lastGen'.index
              o     == lastGen'.outcome
          IN  /\ lastGen'.stage = "summarize"
              /\ index = Len(SummariesSoFar) + 1
              /\ Len(SummariesSoFar') = index
              /\ SubSeq(SummariesSoFar', 1, index - 1) = SummariesSoFar
              /\ SummariesSoFar'[index] =
                    IF o.kind = "raise" THEN state.articles[index].content
                    ELSE ResponseText(o)
              /\ state'.articles = state.articles
              /\ (pc' # "summarize" =>
                    /\ Len(state'.summaries) = Len(state.articles)
                    /\ state'.current_step = "summarizing_complete"
                    /\ state'.error = NoneVal) ]_vars

\* two articles: the call for the first raised and its content stands in as
\* its summary, the second has the summary the model wrote
C11_Witness ==
    /\ Returned("summarize")
    /\ Len(state.articles) = 2
    /\ state.articles[1].title # state.articles[1].content
    /\ state.summaries = << state.articles[1].content, <<"o", "k">> >>
    /\ genFailures > 0
    /\ lastGen.outcome.kind = "text"

\* the articles without the annotation the filter stage adds
Unannotated(articles) ==
    [k \in 1..Len(articles) |-> [articles[k] EXCEPT !.relevance_score = NoScore]]

\* `out` is `inp` with some positions left out: its members are members of
\* inp, taken at strictly increasing positions (so none is taken twice)
IsSubsequence(out, inp) ==
    \E f \in [1..Len(out) -> 1..Len(inp)] :
        /\ \A k \in 1..Len(out) : out[k] = inp[f[k]]
        /\ \A k \in 1..(Len(out) - 1) : f[k] < f[k + 1]

\* C12: what the filter stage has retained, during its loop and once it has
\* returned, is a subsequence of the articles it was entered with: input
\* articles (but for the score annotation), none twice, in their input order.
C12_Subsequence ==
    entry.stage = "filter" => IsSubsequence(Unannotated(RetainedSoFar), entry.state.articles)

\* two different articles went in and both were retained, in their order
C12_Witness ==
    /\ Returned("filter")
    /\ state.current_step = "filtering_complete"
    /\ Len(entry.state.articles) = 2
    /\ entry.state.articles[1] # entry.state.articles[2]
    /\ Unannotated(state.articles) = entry.state.articles

\* _search_step has returned and the filter node has not begun
SearchReturned == pc = "filter" /\ entry.stage = "none"

\* the provider answered with a results list and the search stage read it
ResultsRead == SearchReturned /\ Truthy(news_api_key) /\ provider.kind = "results"

\* a record that has both a title and a body
Usable(raw) == "title" \in raw.keys /\ "body" \in raw.keys

\* C13 as claimed: the articles the search stage puts into the state all have a
\* title and a content, and there is one per usable provider record (a record
\* lacking a title or a body is skipped).
C13_UnusableRecordsSkipped ==
    ResultsRead =>
        /\ \A k \in 1..Len(state.articles) :
              state.articles[k].title # <<>> /\ state.articles[k].content # <<>>
        /\ Len(state.articles) =
              Cardinality({k \in 1..Len(provider.results) : Usable(provider.results[k])})

\* C13 as amended: every provider record becomes one article, in provider
\* order; the title or body a record lacks is the empty string in its article;
\* the search succeeds.
C13_EveryRecordKept ==
    ResultsRead =>
        /\ state.current_step = "search_complete"
        /\ state.error = NoneVal
        /\ Len(state.articles) = Len(provider.results)
        /\ \A k \in 1..Len(provider.results) :
              LET raw == provider.results[k]
              IN  /\ state.articles[k].title =
                        (IF "title" \in raw.keys THEN raw.title ELSE <<>>)
                  /\ state.articles[k].content =
                        (IF "body" \in raw.keys THEN raw.body ELSE <<>>)
                  /\ state.articles[k].url = raw.url

\* a record without title and a record without body, both in the state
C13_Witness ==
    /\ ResultsRead
    /\ Len(state.articles) = 2
    /\ "title" \notin provider.results[1].keys
    /\ state.articles[1].title = <<>>
    /\ "body" \notin provider.results[2].keys
    /\ state.articles[2].content = <<>>

\* the edges of the workflow: START -> search -> filter -> summarize -> END
StageOrder == <<"search", "filter", "summarize">>

TerminalSteps ==
    {"summarizing_complete", "search_error", "filter_error", "summarize_error"}

ErrorSteps == StageErrorSteps \cup {"execution_error"}

\* error and marker agree in `st`, and an error comes with no summaries
ErrorConsistent(st) ==
    /\ (st.error # NoneVal) <=> (st.current_step \in ErrorSteps)
    /\ (st.error # NoneVal) => st.summaries = <<>>

\* C17: in every reachable pipeline state (the state the nodes pass on, the
\* last state the stream yielded, and the value process_query returned) the
\* error field is non-null exactly when the marker is an error marker, and
\* then the summaries are empty.
C17_ErrorIffErrorMarker ==
    /\ ErrorConsistent(state)
    /\ (final_state # Pending => ErrorConsistent(final_state))
    /\ (result # Pending => ErrorConsistent(result))

\* a run returned the failure of its filter stage
C17_Witness ==
    /\ pc = "returned"
    /\ result.current_step = "filter_error"
    /\ result.error = "Filter error: No articles to filter"
    /\ result.summaries = <<>>

\* C15 (isolation): whatever the interleaving of two calls on the shared
\* instance, a call that has returned holds the state and the result it
\* reaches running alone with its query and the providers' answers to it.
C15_Isolation ==
    \A r \in Runs :
        runs[r].pc = "returned" =>
            LET run == runs[r]
                q   == run.state.query
            IN  /\ Len(run.gens) = AloneCalls(q, news_api_key, run.resp, run.gens)
                /\ run.state = AloneState(q, news_api_key, run.resp, run.gens)
                /\ run.result = AloneResult(q, news_api_key, run.resp, run.gens)

\* both calls ran their loops while the other was under way and both returned,
\* one with two summaries
C15_Witness ==
    /\ \A r \in Runs : runs[r].pc = "returned" /\ runs[r].overlapped
    /\ Len(runs["r1"].state.summaries) = 2
    /\ Len(runs["r2"].state.articles) = 1
    /\ runs["r1"].state.query # runs["r2"].state.query
    /\ frames["r1"].summaries # frames["r2"].summaries

\* C16: the POST /api/query handler answers with the result list when the
\* pipeline result carries no error, and with an error response carrying the
\* pipeline's error message when it does, and only then.
C16_HandlerFaithful ==
    response # NoResponse =>
        IF result.error = NoneVal
        THEN response.status = 200 /\ response.body = result.summaries
        ELSE response.status = 500 /\ response.detail[2] = result.error

\* C18: what stream_agent_response has yielded so far, put together, is the
\* content of the latest agent message that had content (nothing lost,
\* nothing sent twice, also when a message does not extend the one before).
C18_YieldedIsLatest == Join(yielded) = lastContent

\* C19: every relevance score the filter stage has attached lies between 5
\* and 10, whatever the model answered, and an article that was dropped has
\* no score attached.
C19_ScoreOnScale ==
    entry.stage = "filter" =>
        /\ \A k \in 1..Len(RetainedSoFar) :
              LET score == RetainedSoFar[k].relevance_score
              IN  /\ score # NoScore
                  /\ ScoreGeq(score, IntScore(5))
                  /\ ScoreGeq(IntScore(10), score)
        /\ (pc = "filter" /\ ScoredLast /\ DroppedLast)
              => state.articles[lastGen.index].relevance_score = NoScore

====
